---------------------------- MODULE Spec2Model ----------------------------
(***************************************************************************)
(* A model of submod.py: shifting the time fields of .srt / .vtt subtitle  *)
(* files by a number of seconds.                                           *)
(*                                                                         *)
(* Strings are sequences of one-character strings, so that slicing,        *)
(* regular-expression matching, parsing and formatting are computed on     *)
(* the characters as the Python code computes them.                        *)
(*                                                                         *)
(* A number of seconds (a Python float that becomes a timedelta) is a      *)
(* record [ms, us]: ms whole milliseconds (any sign) plus us microseconds  *)
(* in 0..999, the value being ms/1000 + us/1000000 seconds.  timedelta     *)
(* has a resolution of one microsecond and normalises its fields the same  *)
(* way (the sub-unit part is never negative).                              *)
(***************************************************************************)
EXTENDS Integers, Sequences, FiniteSets, TLC

VARIABLES
    fs,            \* the file system: file name -> content (the chunks written)
    before,        \* content of the input file when submod is called
    inputfile,     \* submod / name_output: the inputfile argument
    seconds,       \* the seconds argument (of every function that has one)
    outputfile,    \* submod: outputfile
    pc,            \* position in the code of the running function
    pos,           \* convert_*: number of lines the for loop has read
    skip,          \* convert_*: skip
    deleted_subs,  \* convert_*: deleted_subs
    text,          \* status: the text printed
    time_string,   \* process_time: the time_string argument
    shifted,       \* process_time(time_string, seconds)
    restored,      \* process_time(shifted, -seconds)
    line,          \* process_line: the line argument
    new_line,      \* process_line(line, seconds)
    name1,         \* name_output(inputfile, seconds)
    seconds2,      \* the seconds argument of a second run of name_output
    name2,         \* name_output(name1, seconds2)
    name12         \* name_output(inputfile, seconds + seconds2)

runVars  == <<fs, before, outputfile, pos, skip, deleted_subs, text>>
timeVars == <<time_string, shifted, restored>>
lineVars == <<line, new_line>>
nameVars == <<name1, seconds2, name2, name12>>
vars == <<fs, before, inputfile, seconds, outputfile, pc, pos, skip,
          deleted_subs, text, time_string, shifted, restored, line, new_line,
          name1, seconds2, name2, name12>>

---------------------------------------------------------------------------
(* Characters, slices, integers <-> digits                                 *)

Digit == <<"0", "1", "2", "3", "4", "5", "6", "7", "8", "9">>

DigitChars == {Digit[i] : i \in 1..10}

DigitVal(c) == CHOOSE d \in 0..9 : Digit[d + 1] = c

Min(a, b) == IF a < b THEN a ELSE b

\* Python s[a:b] for 0 <= a <= b
Slice(s, a, b) == SubSeq(s, a + 1, Min(b, Len(s)))

\* Python s[a:]
SliceFrom(s, a) == SubSeq(s, a + 1, Len(s))

\* \d+ matches the whole of s
AllDigits(s) == Len(s) > 0 /\ \A i \in 1..Len(s) : s[i] \in DigitChars

RECURSIVE IntOf(_)
\* int(s) for a string of digits
IntOf(s) ==
    IF s = <<>> THEN 0
    ELSE IntOf(SubSeq(s, 1, Len(s) - 1)) * 10 + DigitVal(s[Len(s)])

RECURSIVE Str(_)
\* str(n), the format code 'd', for n >= 0
Str(n) == IF n < 10 THEN <<Digit[n + 1]>> ELSE Str(n \div 10) \o <<Digit[(n % 10) + 1]>>

\* the format code '02d' for n >= 0: at least two digits, more when n >= 100
Pad2(n) == IF n < 10 THEN <<"0">> \o Str(n) ELSE Str(n)

\* exactly three digits of n in 0..999
Pad3(n) == <<Digit[(n \div 100) + 1], Digit[((n \div 10) % 10) + 1], Digit[(n % 10) + 1]>>

\* the result of a raised ValueError (int() of a non-number)
ValueError == <<"ValueError">>

\* '(DELETED)\n\n'
DELETED == <<"(", "D", "E", "L", "E", "T", "E", "D", ")", "\n", "\n">>

---------------------------------------------------------------------------
(* Numbers of seconds                                                      *)

Secs(ms, us) == [ms |-> ms, us |-> us]

\* -x
Neg(x) == IF x.us = 0 THEN Secs(-x.ms, 0) ELSE Secs(-x.ms - 1, 1000 - x.us)

\* x + y
Plus(x, y) ==
    LET u == x.us + y.us
    IN  Secs(x.ms + y.ms + (u \div 1000), u % 1000)

\* x >= 0
NonNeg(x) == x.ms >= 0

---------------------------------------------------------------------------
(* process_time                                                            *)

\* float(s) takes the six characters 'SS.mmm'.  Every slice [6:12] the model
\* passes has this shape, or is not reached because int() has raised.
IsSecsField(s) ==
    /\ Len(s) = 6
    /\ s[3] = "."
    /\ AllDigits(Slice(s, 0, 2))
    /\ AllDigits(Slice(s, 3, 6))

\* float(s) in milliseconds
SecsFieldMs(s) == IntOf(Slice(s, 0, 2)) * 1000 + IntOf(Slice(s, 3, 6))

\* The format code '06.3f' of secs = ms/1000 + us/1000000 with 0 <= ms < 60000:
\* the nearest multiple of 0.001, which is 60.000 from 59.9995 on.  At
\* us = 500 the binary expansion of the float decides; the offsets of the
\* model avoid it.
FormatSecs(ms, us) ==
    LET r == IF us >= 500 THEN ms + 1 ELSE ms
    IN  Pad2(r \div 1000) \o <<".">> \o Pad3(r % 1000)

\* process_time with 'time > 0' for 'time >= 0'
process_time_gt(ts, incr) ==
    LET h == Slice(ts, 0, 2)
        m == Slice(ts, 3, 5)
        s == Slice(ts, 6, 12)
    IN  IF ~AllDigits(h) \/ ~AllDigits(m) \/ ~IsSecsField(s) THEN ValueError
        ELSE
          LET time == Plus(Secs(IntOf(h) * 3600000 + IntOf(m) * 60000 + SecsFieldMs(s), 0), incr)
          IN  IF time.ms > 0 THEN
                   Pad2(time.ms \div 3600000) \o <<":">>
                \o Pad2((time.ms % 3600000) \div 60000) \o <<":">>
                \o FormatSecs((time.ms % 3600000) % 60000, time.us)
              ELSE DELETED

process_time(ts, incr) ==
    LET h == Slice(ts, 0, 2)
        m == Slice(ts, 3, 5)
        s == Slice(ts, 6, 12)
    IN  IF ~AllDigits(h) \/ ~AllDigits(m) \/ ~IsSecsField(s) THEN ValueError
        ELSE
          LET time == Plus(Secs(IntOf(h) * 3600000 + IntOf(m) * 60000 + SecsFieldMs(s), 0), incr)
          IN  IF NonNeg(time) THEN
                   Pad2(time.ms \div 3600000) \o <<":">>
                \o Pad2((time.ms % 3600000) \div 60000) \o <<":">>
                \o FormatSecs((time.ms % 3600000) % 60000, time.us)
              ELSE DELETED

---------------------------------------------------------------------------
(* process_line                                                            *)

Arrow == <<" ", "-", "-", ">", " ">>

ZeroTime == <<"0", "0", ":", "0", "0", ":", "0", "0", ".", "0", "0", "0">>

process_line(ln, secs) ==
    LET start == process_time(Slice(ln, 0, 12), secs)
        end   == process_time(Slice(ln, 17, 29), secs)
    IN  IF start = ValueError \/ end = ValueError THEN ValueError
        ELSE IF start = DELETED THEN
               IF end = DELETED THEN DELETED
               ELSE ZeroTime \o Arrow \o end \o <<"\n">>
        ELSE start \o Arrow \o end \o <<"\n">>

---------------------------------------------------------------------------
(* name_output                                                             *)

\* the index of the last character of the run of digits that starts at
\* index i of s (i - 1 when s[i] is no digit): what a greedy \d+ takes
DigitRun(s, i) ==
    CHOOSE j \in (i - 1)..Len(s) :
        /\ \A k \in i..j : s[k] \in DigitChars
        /\ (j = Len(s) \/ s[j + 1] \notin DigitChars)

SecTail == <<"_", "S", "e", "c", "}", "_">>

\* proc.match(inputfile) for proc_regex '\{[+-]\d+\.\d+_Sec\}_': the index of
\* the last character matched, 0 when there is no match at the start
ProcMatchEnd(s) ==
    IF Len(s) < 3 \/ s[1] # "{" \/ s[2] \notin {"+", "-"} THEN 0
    ELSE LET a == DigitRun(s, 3)
         IN  IF a < 3 \/ a + 1 > Len(s) \/ s[a + 1] # "." THEN 0
             ELSE LET b == DigitRun(s, a + 2)
                  IN  IF b < a + 2 \/ Slice(s, b, b + 6) # SecTail THEN 0
                      ELSE b + 6

\* number.search(inputfile).group() for '[+-]\d+\.\d+', given that proc
\* matched: the leftmost match starts at the sign of the tag
NumberGroup(s) == SubSeq(s, 2, ProcMatchEnd(s) - 6)

\* float(g) of sign, digits, '.', digits (the model's names carry at most
\* three digits after the point)
FloatOf(g) ==
    LET a == DigitRun(g, 2)
        f == SubSeq(g, a + 2, Len(g))
        f3 == SubSeq(f \o <<"0", "0", "0">>, 1, 3)
        v == Secs(IntOf(SubSeq(g, 2, a)) * 1000 + IntOf(f3), 0)
    IN  IF g[1] = "-" THEN Neg(v) ELSE v

\* the format code '.2f': the nearest multiple of 0.01, with '-' for every
\* negative number, also one that rounds to 0.00.  Exactly halfway the binary
\* expansion of the float decides; the offsets of the model avoid it.
Format2f(x) ==
    LET a == IF NonNeg(x) THEN x ELSE Neg(x)
        rem == (a.ms % 10) * 1000 + a.us
        h == (a.ms \div 10) + (IF rem >= 5000 THEN 1 ELSE 0)
    IN  (IF NonNeg(x) THEN <<>> ELSE <<"-">>)
        \o Str(h \div 100) \o <<".">> \o <<Digit[((h % 100) \div 10) + 1], Digit[(h % 10) + 1]>>

\* '{{{0:.2f}_Sec}}_'
input_prefix ==
    <<"{", "{", "{", "0", ":", ".", "2", "f", "}", "_", "S", "e", "c", "}", "}", "_">>

FormatField == <<"{", "0", ":", ".", "2", "f", "}">>

\* the result of a raised KeyError / ValueError of str.format
FormatError == <<"FormatError">>

RECURSIVE StrFormat(_, _)
\* p.format(x): '{{' and '}}' are braces, '{0:.2f}' is the number; any other
\* brace is an error
StrFormat(p, x) ==
    IF p = <<>> THEN <<>>
    ELSE LET rest ==
               IF Slice(p, 0, 2) \in {<<"{", "{">>, <<"}", "}">>} THEN StrFormat(SliceFrom(p, 2), x)
               ELSE IF Slice(p, 0, 7) = FormatField THEN StrFormat(SliceFrom(p, 7), x)
               ELSE IF p[1] \in {"{", "}"} THEN FormatError
               ELSE StrFormat(SliceFrom(p, 1), x)
             head ==
               IF Slice(p, 0, 2) \in {<<"{", "{">>, <<"}", "}">>} THEN <<p[1]>>
               ELSE IF Slice(p, 0, 7) = FormatField THEN Format2f(x)
               ELSE <<p[1]>>
         IN  IF rest = FormatError THEN FormatError ELSE head \o rest

name_output(file, secs) ==
    LET processed == ProcMatchEnd(file) > 0
        incr == IF processed THEN Plus(FloatOf(NumberGroup(file)), secs) ELSE secs
        placeholder ==
            IF processed THEN input_prefix \o SliceFrom(file, ProcMatchEnd(file))
            ELSE input_prefix \o file
        signed ==
            IF NonNeg(incr) THEN <<"{", "{", "+">> \o SliceFrom(placeholder, 2)
            ELSE placeholder
    IN  StrFormat(signed, incr)

---------------------------------------------------------------------------
(* Inputs                                                                  *)

\* lines of a subtitle file that one run reads
MaxLines == 3

\* whole seconds of an offset given to process_time / process_line
MaxShift == 1

\* hundredths of a second of an offset given to name_output
MaxTag == 1

\* a well-formed time field 'HH:MM:SS<sep>mmm' (the example of process_line)
TimeField(h, m, sc, ms, sep) ==
    Pad2(h) \o <<":">> \o Pad2(m) \o <<":">> \o Pad2(sc) \o <<sep>> \o Pad3(ms)

\* the time field of ms milliseconds
FieldOfMs(ms, sep) ==
    TimeField(ms \div 3600000, (ms % 3600000) \div 60000, (ms % 60000) \div 1000, ms % 1000, sep)

\* a well-formed time-line 'start --> end\n'
TimeLineOf(startMs, endMs, sep) ==
    FieldOfMs(startMs, sep) \o Arrow \o FieldOfMs(endMs, sep) \o <<"\n">>

\* milliseconds of a well-formed time field
FieldMs(f) ==
    IntOf(Slice(f, 0, 2)) * 3600000 + IntOf(Slice(f, 3, 5)) * 60000
    + IntOf(Slice(f, 6, 8)) * 1000 + IntOf(Slice(f, 9, 12))

\* every sequence over S of length at most n
SeqsUpTo(S, n) == UNION {[1..k -> S] : k \in 0..n}

Timestamps ==
    {TimeField(h, m, sc, ms, ".") :
        h \in {0, 1, 99}, m \in {0, 59}, sc \in {0, 59}, ms \in {0, 1, 999}}

\* offsets of whole and of fractional milliseconds; none ends in 500 us
TimeOffsets ==
    {Secs(sc * 1000 + ms, us) :
        sc \in (0 - MaxShift)..MaxShift, ms \in {0, 999}, us \in {0, 400, 600}}

LineTimes == {0, 1, 1000, 3802, 59999, 3600000}

LineOffsets ==
    {Secs(sc * 1000 + ms, us) :
        sc \in (-1 - MaxShift)..MaxShift, ms \in {0, 1, 198}, us \in {0, 400}}

m_srt == <<"m", ".", "s", "r", "t">>

m_vtt == <<"m", ".", "v", "t", "t">>

m_txt == <<"m", ".", "t", "x", "t">>

\* '{+0.00_Sec}_m.vtt'
tagged_vtt == <<"{", "+", "0", ".", "0", "0", "_", "S", "e", "c", "}", "_">> \o m_vtt

\* '{+2.5_Sec}_m.srt'
tagged_srt == <<"{", "+", "2", ".", "5", "_", "S", "e", "c", "}", "_">> \o m_srt

FileNames == {m_srt, m_vtt, tagged_vtt, tagged_srt, m_txt}

\* a sub-line and the empty line that ends a subtitle
SubLine == <<"a", "\n">>

EmptyLine == <<"\n">>

\* the lines of the files: a subtitle of the first two seconds, a late one,
\* one across the tenth second, and one that ends before it starts
FileLines(sep) ==
    {SubLine, EmptyLine, TimeLineOf(1000, 2000, sep), TimeLineOf(20000, 21000, sep),
     TimeLineOf(3802, 15314, sep), TimeLineOf(10000, 3000, sep)}

RunOffsets == {Secs(0, 0), Secs(-10000, 0), Secs(5000, 0), Secs(4, 0)}

\* s.endswith(suffix)
EndsWith(s, suffix) ==
    Len(s) >= Len(suffix) /\ SubSeq(s, Len(s) - Len(suffix) + 1, Len(s)) = suffix

dot_srt == <<".", "s", "r", "t">>

dot_vtt == <<".", "v", "t", "t">>

\* the files a name can be: a subtitle file of its format, or any other file
Contents(name) ==
    IF EndsWith(name, dot_srt) THEN SeqsUpTo(FileLines(","), MaxLines)
    ELSE IF EndsWith(name, dot_vtt) THEN SeqsUpTo(FileLines("."), MaxLines)
    ELSE {<<>>, <<SubLine>>}

---------------------------------------------------------------------------
(* submod, convert_srt, convert_vtt, status                                *)

\* time_line.match(ln) for '\d\d:\d\d:\d\d<sep>\d\d\d'
TimeLineMatch(ln, sep) ==
    /\ Len(ln) >= 12
    /\ \A i \in {1, 2, 4, 5, 7, 8, 10, 11, 12} : ln[i] \in DigitChars
    /\ ln[3] = ":" /\ ln[6] = ":" /\ ln[9] = sep

\* s.replace(old, new) for one-character old and new
Replace(s, old, new) == [i \in 1..Len(s) |-> IF s[i] = old THEN new ELSE s[i]]

\* output.write(chunk)
Write(chunk) == fs' = [fs EXCEPT ![outputfile] = Append(@, chunk)]

\* the line the for loop reads next
NextLine == fs[inputfile][pos + 1]

\* the text status prints before the file name
StatusText(n) ==
    IF n > 0 THEN
        IF n = 1 THEN <<"Success.", "One subtitle was deleted at the beginning of the file.">>
        ELSE <<"Success.", Str(n), " subtitles were deleted at the beginning of the file.">>
    ELSE <<"Success.">>

NoFiles == [n \in {} |-> <<>>]

IdleRun ==
    /\ fs = NoFiles /\ before = <<>> /\ outputfile = <<>> /\ pos = 0
    /\ skip = FALSE /\ deleted_subs = 0 /\ text = <<>>

IdleTime == time_string = <<>> /\ shifted = <<>> /\ restored = <<>>

IdleLine == line = <<>> /\ new_line = <<>>

IdleName == name1 = <<>> /\ seconds2 = Secs(0, 0) /\ name2 = <<>> /\ name12 = <<>>

\* what a step of a run of submod leaves alone
RunFrame == UNCHANGED <<before, inputfile, seconds, timeVars, lineVars, nameVars>>

Init ==
    /\ inputfile \in FileNames
    /\ seconds \in RunOffsets
    /\ fs \in {NoFiles} \cup {(inputfile :> c) : c \in Contents(inputfile)}
    /\ before = IF inputfile \in DOMAIN fs THEN fs[inputfile] ELSE <<>>
    /\ outputfile = <<>>
    /\ pc = "submod"
    /\ pos = 0
    /\ skip = FALSE
    /\ deleted_subs = 0
    /\ text = <<>>
    /\ IdleTime /\ IdleLine /\ IdleName

\* submod, lines 20-22: not a file
NoSuchFile ==
    /\ pc = "submod"
    /\ inputfile \notin DOMAIN fs
    /\ pc' = "exit"
    /\ text' = <<"Please specify an existing file as input.">>
    /\ UNCHANGED <<fs, outputfile, pos, skip, deleted_subs>>
    /\ RunFrame

\* submod, lines 30-33: neither '.srt' nor '.vtt'
BadExtension ==
    /\ pc = "submod"
    /\ inputfile \in DOMAIN fs
    /\ ~EndsWith(inputfile, dot_srt)
    /\ ~EndsWith(inputfile, dot_vtt)
    /\ pc' = "exit"
    /\ text' = <<"Please specify either an .srt or .vtt file as input.">>
    /\ UNCHANGED <<fs, outputfile, pos, skip, deleted_subs>>
    /\ RunFrame

\* the start of convert_*: open(inputfile, 'r'), then open(outputfile, 'w'),
\* which creates the file or truncates the one of that name
Open(to) ==
    /\ outputfile' = name_output(inputfile, seconds)
    /\ fs' = (outputfile' :> <<>>) @@ fs
    /\ deleted_subs' = 0
    /\ skip' = FALSE
    /\ pos' = 0
    /\ pc' = to
    /\ UNCHANGED text
    /\ RunFrame

SubmodSrt ==
    /\ pc = "submod"
    /\ inputfile \in DOMAIN fs
    /\ EndsWith(inputfile, dot_srt)
    /\ Open("convert_srt")

SubmodVtt ==
    /\ pc = "submod"
    /\ inputfile \in DOMAIN fs
    /\ ~EndsWith(inputfile, dot_srt)
    /\ EndsWith(inputfile, dot_vtt)
    /\ Open("convert_vtt")

Reading(at) == pc = at /\ pos < Len(fs[inputfile])

\* convert_vtt, lines 121-125 and 140
ConvertVttTimeLine ==
    /\ Reading("convert_vtt")
    /\ TimeLineMatch(NextLine, ".")
    /\ LET nl == process_line(NextLine, seconds)
       IN  /\ IF nl = DELETED
                THEN deleted_subs' = deleted_subs + 1 /\ skip' = TRUE
                ELSE UNCHANGED <<deleted_subs, skip>>
           /\ Write(nl)
    /\ pos' = pos + 1
    /\ UNCHANGED <<outputfile, pc, text>>
    /\ RunFrame

\* ConvertVttSkip with the 'continue' under 'else': the empty line that ends
\* the skipping is written
ConvertVttSkip_writes_empty ==
    /\ Reading("convert_vtt")
    /\ ~TimeLineMatch(NextLine, ".")
    /\ skip = TRUE
    /\ skip' = IF NextLine = <<"\n">> THEN FALSE ELSE skip
    /\ IF NextLine = <<"\n">> THEN Write(NextLine) ELSE UNCHANGED fs
    /\ pos' = pos + 1
    /\ UNCHANGED <<outputfile, pc, deleted_subs, text>>
    /\ RunFrame

\* convert_vtt, lines 130-134
ConvertVttSkip ==
    /\ Reading("convert_vtt")
    /\ ~TimeLineMatch(NextLine, ".")
    /\ skip = TRUE
    /\ skip' = IF NextLine = <<"\n">> THEN FALSE ELSE skip
    /\ pos' = pos + 1
    /\ UNCHANGED <<fs, outputfile, pc, deleted_subs, text>>
    /\ RunFrame

\* ConvertVttCopy without the newline of the line (a line.strip())
ConvertVttCopy_stripped ==
    /\ Reading("convert_vtt")
    /\ ~TimeLineMatch(NextLine, ".")
    /\ skip # TRUE
    /\ Write(SubSeq(NextLine, 1, Len(NextLine) - 1))
    /\ pos' = pos + 1
    /\ UNCHANGED <<outputfile, pc, skip, deleted_subs, text>>
    /\ RunFrame

\* convert_vtt, lines 137-140
ConvertVttCopy ==
    /\ Reading("convert_vtt")
    /\ ~TimeLineMatch(NextLine, ".")
    /\ skip # TRUE
    /\ Write(NextLine)
    /\ pos' = pos + 1
    /\ UNCHANGED <<outputfile, pc, skip, deleted_subs, text>>
    /\ RunFrame

\* ConvertSrtTimeLine with 'deleted_subs += 1' for every time-line
ConvertSrtTimeLine_counts_all ==
    /\ Reading("convert_srt")
    /\ TimeLineMatch(NextLine, ",")
    /\ LET nl == process_line(Replace(NextLine, ",", "."), seconds)
       IN  /\ deleted_subs' = deleted_subs + 1
           /\ IF nl = DELETED
                THEN skip' = TRUE /\ Write(nl)
                ELSE UNCHANGED skip /\ Write(Replace(nl, ".", ","))
    /\ pos' = pos + 1
    /\ UNCHANGED <<outputfile, pc, text>>
    /\ RunFrame

\* convert_srt, lines 180-189 and 204
ConvertSrtTimeLine ==
    /\ Reading("convert_srt")
    /\ TimeLineMatch(NextLine, ",")
    /\ LET nl == process_line(Replace(NextLine, ",", "."), seconds)
       IN  IF nl = DELETED
             THEN deleted_subs' = deleted_subs + 1 /\ skip' = TRUE /\ Write(nl)
             ELSE UNCHANGED <<deleted_subs, skip>> /\ Write(Replace(nl, ".", ","))
    /\ pos' = pos + 1
    /\ UNCHANGED <<outputfile, pc, text>>
    /\ RunFrame

\* convert_srt, lines 194-198
ConvertSrtSkip ==
    /\ Reading("convert_srt")
    /\ ~TimeLineMatch(NextLine, ",")
    /\ skip = TRUE
    /\ skip' = IF NextLine = <<"\n">> THEN FALSE ELSE skip
    /\ pos' = pos + 1
    /\ UNCHANGED <<fs, outputfile, pc, deleted_subs, text>>
    /\ RunFrame

\* convert_srt, lines 201-204
ConvertSrtCopy ==
    /\ Reading("convert_srt")
    /\ ~TimeLineMatch(NextLine, ",")
    /\ skip # TRUE
    /\ Write(NextLine)
    /\ pos' = pos + 1
    /\ UNCHANGED <<outputfile, pc, skip, deleted_subs, text>>
    /\ RunFrame

\* the end of the file: convert_* returns deleted_subs and submod calls status
Status ==
    /\ pc \in {"convert_srt", "convert_vtt"}
    /\ pos = Len(fs[inputfile])
    /\ text' = StatusText(deleted_subs)
    /\ pc' = "done"
    /\ UNCHANGED <<fs, outputfile, pos, skip, deleted_subs>>
    /\ RunFrame

Next ==
    \/ NoSuchFile \/ BadExtension \/ SubmodSrt \/ SubmodVtt
    \/ ConvertVttTimeLine \/ ConvertVttSkip \/ ConvertVttCopy
    \/ ConvertSrtTimeLine \/ ConvertSrtSkip \/ ConvertSrtCopy
    \/ Status

Spec == Init /\ [][Next]_vars

---------------------------------------------------------------------------
(* process_time called on a time field, then on its result with -seconds   *)

InitTime ==
    /\ time_string \in Timestamps
    /\ seconds \in TimeOffsets
    /\ shifted = <<>>
    /\ restored = <<>>
    /\ pc = "process_time"
    /\ inputfile = <<>>
    /\ IdleRun /\ IdleLine /\ IdleName

Shift ==
    /\ pc = "process_time"
    /\ shifted' = process_time(time_string, seconds)
    /\ pc' = "shifted"
    /\ UNCHANGED <<time_string, restored, seconds, inputfile, runVars, lineVars, nameVars>>

ShiftBack ==
    /\ pc = "shifted"
    /\ restored' = process_time(shifted, Neg(seconds))
    /\ pc' = "restored"
    /\ UNCHANGED <<time_string, shifted, seconds, inputfile, runVars, lineVars, nameVars>>

NextTime == Shift \/ ShiftBack

SpecTime == InitTime /\ [][NextTime]_vars

---------------------------------------------------------------------------
(* process_line called on a time-line                                      *)

InitLine ==
    /\ line \in {TimeLineOf(a, b, ".") : a \in LineTimes, b \in LineTimes}
    /\ seconds \in LineOffsets
    /\ new_line = <<>>
    /\ pc = "process_line"
    /\ inputfile = <<>>
    /\ IdleRun /\ IdleTime /\ IdleName

ProcessLine ==
    /\ pc = "process_line"
    /\ new_line' = process_line(line, seconds)
    /\ pc' = "done"
    /\ UNCHANGED <<line, seconds, inputfile, runVars, timeVars, nameVars>>

NextLineCall == ProcessLine

SpecLine == InitLine /\ [][NextLineCall]_vars

---------------------------------------------------------------------------
(* name_output called on a file name, on its result, and once with the sum *)

\* offsets of whole hundredths and of thousandths of a second; no sum of
\* them lies halfway between two hundredths
NameOffsets ==
    {Secs(h * 10 + t, 0) : h \in (0 - MaxTag)..MaxTag, t \in {0, 4}}
    \cup {Secs(2500, 0), Secs(-500, 0)}

InitName ==
    /\ inputfile \in {m_srt, m_vtt}
    /\ seconds \in NameOffsets
    /\ seconds2 \in NameOffsets
    /\ name1 = <<>>
    /\ name2 = <<>>
    /\ name12 = <<>>
    /\ pc = "name_output"
    /\ IdleRun /\ IdleTime /\ IdleLine

NameFirst ==
    /\ pc = "name_output"
    /\ name1' = name_output(inputfile, seconds)
    /\ pc' = "again"
    /\ UNCHANGED <<name2, name12, seconds2, seconds, inputfile, runVars, timeVars, lineVars>>

NameSecond ==
    /\ pc = "again"
    /\ name2' = name_output(name1, seconds2)
    /\ pc' = "once"
    /\ UNCHANGED <<name1, name12, seconds2, seconds, inputfile, runVars, timeVars, lineVars>>

NameOnce ==
    /\ pc = "once"
    /\ name12' = name_output(inputfile, Plus(seconds, seconds2))
    /\ pc' = "done"
    /\ UNCHANGED <<name1, name2, seconds2, seconds, inputfile, runVars, timeVars, lineVars>>

NextName == NameFirst \/ NameSecond \/ NameOnce

SpecName == InitName /\ [][NextName]_vars

---------------------------------------------------------------------------
(* The claims, about a run of submod                                       *)

\* the lines the for loop of convert_* reads
Lines == fs[inputfile]

\* the file that convert_* writes
Output == fs[outputfile]

InLoop == pc \in {"convert_srt", "convert_vtt"}

\* ln is a time-range line of the format that is being converted
IsTime(ln) == TimeLineMatch(ln, IF EndsWith(inputfile, dot_srt) THEN "," ELSE ".")

\* ln as process_line gets it
Canonical(ln) == IF EndsWith(inputfile, dot_srt) THEN Replace(ln, ",", ".") ELSE ln

\* the time-range line ln transforms to the Deletion marker
Deletes(ln) == IsTime(ln) /\ process_line(Canonical(ln), seconds) = DELETED

\* line i is not a time-range line and follows a deleted time-range line with
\* no empty line in between
Suppressed(i) ==
    /\ ~IsTime(Lines[i])
    /\ \E j \in 1..(i - 1) :
          /\ Deletes(Lines[j])
          /\ \A k \in (j + 1)..(i - 1) : Lines[k] # EmptyLine

\* a step of the loop that reads one line
ReadStep == InLoop /\ pos' = pos + 1

\* C1: once submod has opened its files, and when it has finished, the input
\* file holds what it held before the run.
C1_InputNeverModified ==
    (InLoop \/ pc = "done") => fs[inputfile] = before

\* C2 as claimed: reading a time-range line that transforms to the Deletion
\* marker, or a non-time-range line up to and including the next empty line
\* after it, writes nothing.
C2_DeletedWritesNothing ==
    [][ReadStep /\ (Deletes(NextLine) \/ Suppressed(pos + 1))
            => fs'[outputfile'] = Output]_vars

\* C2 as amended: reading a time-range line that transforms to the Deletion
\* marker writes exactly the marker '(DELETED)\n\n', and reading a
\* non-time-range line up to and including the next empty line after it
\* writes nothing.
C2_DeletedWritesMarkerOnly ==
    [][ReadStep =>
        /\ Deletes(NextLine) => fs'[outputfile'] = Append(Output, DELETED)
        /\ Suppressed(pos + 1) => fs'[outputfile'] = Output]_vars

\* a deleted time-range line, its sub-line and its empty line have been read,
\* and the output holds the marker alone
C2_Witness ==
    /\ InLoop /\ pos = 3
    /\ Deletes(Lines[1]) /\ Lines[2] = SubLine /\ Lines[3] = EmptyLine
    /\ Output = <<DELETED>>

\* C7: reading a line that is not a time-range line while skip is False
\* (COPYING) appends exactly that line to the output, and no step of the
\* loop changes what was written before.
C7_CopiedUnchanged ==
    [][InLoop =>
        /\ Len(fs'[outputfile']) >= Len(Output)
        /\ SubSeq(fs'[outputfile'], 1, Len(Output)) = Output
        /\ (pos' = pos + 1 /\ ~IsTime(NextLine) /\ skip = FALSE)
              => fs'[outputfile'] = Append(Output, NextLine)]_vars

\* a sub-line and an empty line have been read while copying, and the output
\* holds them in that order
C7_Witness ==
    /\ InLoop /\ pos = 2 /\ skip = FALSE
    /\ Lines[1] = SubLine /\ Lines[2] = EmptyLine
    /\ Output = <<SubLine, EmptyLine>>

\* C8: deleted_subs is the number of time-range lines read so far that
\* transform to the Deletion marker; at the return, of those of the input.
C8_CountsDeletedTimeLines ==
    (InLoop \/ pc = "done") =>
        /\ deleted_subs = Cardinality({i \in 1..pos : Deletes(Lines[i])})
        /\ pc = "done" => pos = Len(Lines)

\* a deleted time-range line with two sub-lines after it has been counted once
C8_Witness ==
    /\ pc = "done" /\ Len(Lines) = 3
    /\ Deletes(Lines[1]) /\ Lines[2] = SubLine /\ Lines[3] = SubLine
    /\ deleted_subs = 1

\* start <= end in the time-range line ln
WellOrdered(ln) == FieldMs(Slice(Canonical(ln), 0, 12)) <= FieldMs(Slice(Canonical(ln), 17, 29))

\* C9: after a time-range line (start <= end) that does not transform to the
\* Deletion marker, the converter is COPYING (skip is False).
C9_SurvivingTimeLineCopies ==
    (InLoop /\ pos >= 1 /\ IsTime(Lines[pos]) /\ WellOrdered(Lines[pos])
        /\ ~Deletes(Lines[pos])) => skip = FALSE

---------------------------------------------------------------------------
(* The claims, about process_time                                          *)

\* T + S of the call
ShiftedTime == Plus(Secs(FieldMs(time_string), 0), seconds)

\* 'HH:MM:SS.mmm' with minutes and seconds below 60
WellFormedField(f) ==
    /\ Len(f) = 12
    /\ TimeLineMatch(f, ".")
    /\ IntOf(Slice(f, 3, 5)) <= 59
    /\ IntOf(Slice(f, 6, 8)) <= 59

\* C3: for T + S >= 0 the result is a well-formed twelve-character field
\* whose value is T + S to the millisecond.
C3_ShiftedWellFormed ==
    (pc \in {"shifted", "restored"} /\ NonNeg(ShiftedTime)) =>
        /\ WellFormedField(shifted)
        /\ FieldMs(shifted) \in {ShiftedTime.ms, ShiftedTime.ms + 1}

\* C6: for T + S >= 0, process_time with S and then with -S gives T back.
C6_RoundTrip ==
    (pc = "restored" /\ NonNeg(ShiftedTime)) => restored = time_string

---------------------------------------------------------------------------
(* The claims, about process_line                                          *)

StartS == Plus(Secs(FieldMs(Slice(line, 0, 12)), 0), seconds)

EndS == Plus(Secs(FieldMs(Slice(line, 17, 29)), 0), seconds)

StartLeEnd == FieldMs(Slice(line, 0, 12)) <= FieldMs(Slice(line, 17, 29))

\* <start+S> and <end+S>, the fields process_time gives
StartField == process_time(Slice(line, 0, 12), seconds)

EndField == process_time(Slice(line, 17, 29), seconds)

\* C4: for start <= end the result is the Deletion marker exactly when both
\* shifted times are negative, '00:00:00.000 --> <end+S>' when only the start
\* is, and '<start+S> --> <end+S>' otherwise, which for start + S = 0 is again
\* '00:00:00.000 --> <end+S>'; a result that is not the marker ends with
\* exactly one newline.
C4_LinePolicy ==
    (pc = "done" /\ StartLeEnd) =>
        /\ new_line = DELETED <=> (~NonNeg(StartS) /\ ~NonNeg(EndS))
        /\ (~NonNeg(StartS) /\ NonNeg(EndS))
              => new_line = ZeroTime \o Arrow \o EndField \o <<"\n">>
        /\ NonNeg(StartS) => new_line = StartField \o Arrow \o EndField \o <<"\n">>
        /\ (StartS = Secs(0, 0) /\ NonNeg(EndS))
              => new_line = ZeroTime \o Arrow \o EndField \o <<"\n">>
        /\ new_line # DELETED
              => /\ Len(new_line) >= 2
                 /\ new_line[Len(new_line)] = "\n"
                 /\ new_line[Len(new_line) - 1] # "\n"

\* the offset cancels the start of a line whose end is later
C4_Witness ==
    /\ pc = "done" /\ StartLeEnd
    /\ StartS = Secs(0, 0) /\ EndS.ms > 0
    /\ new_line = ZeroTime \o Arrow \o EndField \o <<"\n">>
    /\ new_line # DELETED

\* C10: when the shifted start is not negative and the shifted end is, the
\* result is the Deletion marker.
C10_EndBeforeStartDeleted ==
    (pc = "done" /\ NonNeg(StartS) /\ ~NonNeg(EndS)) => new_line = DELETED

---------------------------------------------------------------------------
(* The claims, about name_output                                           *)

\* file is one tag '{[+-]X.XX_Sec}_', its sign '+' exactly for incr >= 0,
\* followed by rest
SingleTag(file, incr, rest) ==
    /\ ProcMatchEnd(file) > 0
    /\ SliceFrom(file, ProcMatchEnd(file)) = rest
    /\ file[2] = (IF NonNeg(incr) THEN "+" ELSE "-")
    /\ file[ProcMatchEnd(file) - 8] = "."

\* C5: name_output with S1 and then with S2 gives the name that name_output
\* gives once with S1 + S2: one tag followed by the fresh file name.
C5_NamingAccumulates ==
    pc = "done" =>
        /\ name2 = name12
        /\ SingleTag(name2, Plus(seconds, seconds2), inputfile)

=============================================================================
